---- MODULE Spec2Model ----
(***************************************************************************)
(* The audio signal chain of SonicPulse (services/audioGraph.ts) and the   *)
(* App component that drives it.                                           *)
(*                                                                         *)
(* The AudioGraph singleton and the Web Audio objects it owns are one      *)
(* record, ag.  Every method of the class is an operator from a record to  *)
(* the record after the call, so that a React effect that makes several    *)
(* calls in a row is one action.                                           *)
(*                                                                         *)
(* Units.  Decibel values (band gains, presence gain, threshold, knee) are *)
(* counted in half dB, the step of the sliders: 24 is 12 dB, -1 is         *)
(* -0.5 dB.  Linear gains (pre-amp, wet, dry, output) are in percent.      *)
(* Pan is in tenths.  Times are in milliseconds.  Playback rate is in      *)
(* percent.  In the Visualizer, sub-bass energies are in twelfths (the sum *)
(* of the bins before the division by bassBins: 600 is an average of 50), *)
(* particle life is in two-hundredths and shockwave alpha in percent.     *)
(***************************************************************************)
EXTENDS Integers, Sequences, FiniteSets, TLC

VARIABLES ag, calls, lastCall, app, frame, vis, live

vars == <<ag, calls, lastCall, app, frame, vis, live>>

\* The state outside the AudioGraph singleton and the App component: the
\* frequency frame handed to getAudioAnalysis and what it returned, and the
\* Visualizer component, and the LiveService singleton.
otherVars == <<frame, vis, live>>

\* ------------------------------------------------------------------ bounds

\* Calls made on the AudioGraph singleton in one behaviour of Spec.
MaxCalls == 3

\* Handler invocations of the App component in one behaviour of AppSpec.
MaxEvents == 2

\* ------------------------------------------------------------ input domains

\* null, for a field that holds a node, a context or an element.
NULL == [ctx |-> 0, kind |-> "null", idx |-> 0]

NoContext == 0

NoElement == "none"

\* The audio elements init can be handed.
Elements == {"audioA", "audioB"}

\* Whether a context created outside a user gesture starts suspended.
StartStates == {"suspended", "running"}

\* Device sample rate (the context is created at the native rate).
SampleRates == {48000}

\* Band indices offered to setEQGain: the first, a middle and the last band,
\* and the index on each side of the range.
BandIndices == {-1, 0, 5, 9, 10}

\* Band and presence gains offered to the setters, in half dB (-12 and 12 dB).
GainInputs == {-24, 24}

\* Pre-amp settings in dB.
PreAmpInputs == {-12, 6}

\* Pan settings in tenths, one of them outside [-1, 1].
PanInputs == {-20, 5}

\* Wet levels in percent (the slider spans 0 .. 0.5).
ReverbInputs == {20, 50}

\* Output volumes in percent.
VolumeInputs == {0, 80}

\* Playback rates in percent.
RateInputs == {50, 200}

\* ------------------------------------------------------- program constants

EQ_FREQUENCIES == <<32, 64, 125, 250, 500, 1000, 2000, 4000, 8000, 16000>>

NumBands == Len(EQ_FREQUENCIES)

Bands == 0 .. (NumBands - 1)

\* ------------------------------------------------------------ Web Audio

Node(c, kind, idx) == [ctx |-> c, kind |-> kind, idx |-> idx]

\* BiquadFilterNode.type is kept in attr as a code: 0 lowpass (the default),
\* 1 peaking.

\* An AudioParam: its current value and the automation scheduled on it.
\* timeConstant = 0 means no automation is scheduled (target = value).
Param(v) == [value |-> v, target |-> v, timeConstant |-> 0]

\* Default parameters of a freshly created node, by kind.
DefaultParams(n) ==
    CASE n.kind \in {"preAmp", "gain", "reverbGain", "dryGain"} ->
            (<<n, "gain">> :> Param(100))
      [] n.kind \in {"eq", "vocal"} ->
            (<<n, "frequency">> :> Param(350)) @@ (<<n, "Q">> :> Param(10))
            @@ (<<n, "gain">> :> Param(0))
      [] n.kind = "panner" -> (<<n, "pan">> :> Param(0))
      [] n.kind = "compressor" ->
            (<<n, "threshold">> :> Param(-48)) @@ (<<n, "knee">> :> Param(60))
            @@ (<<n, "ratio">> :> Param(12)) @@ (<<n, "attack">> :> Param(3))
            @@ (<<n, "release">> :> Param(250))
      [] OTHER -> <<>>

\* context.createX(): a new node with its default parameters.
CreateNode(w, n) ==
    [w EXCEPT !.nodes = @ \cup {n}, !.param = DefaultParams(n) @@ @]

\* a.connect(b)
Connect(w, a, b) == [w EXCEPT !.edges = @ \cup {<<a, b>>}]

\* param.value = v
SetValue(w, n, p, v) == [w EXCEPT !.param[<<n, p>>] = Param(v)]

\* param.setTargetAtTime(target, context.currentTime, timeConstant): the
\* value starts to approach target from where it is now; an automation
\* scheduled earlier on the same parameter is superseded.
SetTargetAtTime(w, n, p, target, tc) ==
    [w EXCEPT !.param[<<n, p>>] =
        [value |-> @.value, target |-> target, timeConstant |-> tc]]

Returned(w) == [w EXCEPT !.outcome = "returned"]

Threw(w, e) == [w EXCEPT !.outcome = e]

\* new AudioContext({ latencyHint: 'playback' })
NewAudioContext(w, c, startState, rate) ==
    [w EXCEPT !.contexts = (c :> [state |-> startState, sampleRate |-> rate,
                                  resuming |-> FALSE]) @@ @,
              !.nodes = @ \cup {Node(c, "destination", 0)}]

\* context.createMediaElementSource(element) refuses an element that already
\* feeds a source node.
CanAttach(w, element) == element \notin DOMAIN w.mediaSource

\* ------------------------------------------------------------ AudioGraph

\* The singleton as constructed: every field null, no filter, and nothing
\* created on the platform side.
AudioGraph ==
    [context |-> NoContext, sourceNode |-> NULL, preAmpNode |-> NULL,
     gainNode |-> NULL, analyserNode |-> NULL, eqFilters |-> <<>>,
     vocalFilter |-> NULL, pannerNode |-> NULL, reverbNode |-> NULL,
     reverbGainNode |-> NULL, dryGainNode |-> NULL, compressorNode |-> NULL,
     audioElement |-> NoElement,
     contexts |-> <<>>, nodes |-> {}, edges |-> {}, param |-> <<>>,
     attr |-> <<>>, buffer |-> <<>>, mediaSource |-> <<>>,
     playbackRate |-> [e \in Elements |-> 100],
     impulses |-> 0, outcome |-> "returned", result |-> "none"]

\* An impulse response of one channel.
createReverbImpulse_mono(w, duration) ==
    LET rate == w.contexts[w.context].sampleRate
    IN  [numberOfChannels |-> 1, length |-> (rate * duration) \div 1000,
         sampleRate |-> rate]

\* createReverbImpulse(duration): a two-channel buffer of rate * duration
\* samples (duration in ms here).
createReverbImpulse(w, duration) ==
    LET rate == w.contexts[w.context].sampleRate
    IN  [numberOfChannels |-> 2, length |-> (rate * duration) \div 1000,
         sampleRate |-> rate]

\* The filter of band i.
EqNode(c, i) == Node(c, "eq", i)

\* init, lines 25-71: the context, then every node and its configuration.
\* createMediaElementSource throws when the element is already attached; the
\* context and the element are assigned by then and nothing else is.
createNodes(w, audioElement, startState, rate) ==
    LET c == Cardinality(DOMAIN w.contexts) + 1
        w1 == [NewAudioContext(w, c, startState, rate)
                 EXCEPT !.context = c, !.audioElement = audioElement]
    IN
    IF ~CanAttach(w1, audioElement) THEN Threw(w1, "InvalidStateError")
    ELSE
    LET src == Node(c, "source", 0)
        pre == Node(c, "preAmp", 0)
        out == Node(c, "gain", 0)
        ana == Node(c, "analyser", 0)
        cmp == Node(c, "compressor", 0)
        pan == Node(c, "panner", 0)
        rev == Node(c, "reverb", 0)
        wet == Node(c, "reverbGain", 0)
        dry == Node(c, "dryGain", 0)
        voc == Node(c, "vocal", 0)
        w2 == [CreateNode(w1, src) EXCEPT !.sourceNode = src,
                 !.mediaSource = (audioElement :> src) @@ @]
        w3 == [CreateNode(w2, pre) EXCEPT !.preAmpNode = pre]
        w4 == [CreateNode(w3, out) EXCEPT !.gainNode = out]
        w5 == [CreateNode(w4, ana) EXCEPT !.analyserNode = ana,
                 !.attr = (<<ana, "fftSize">> :> 4096)
                          @@ (<<ana, "smoothingTimeConstant">> :> 85) @@ @]
        w6 == [CreateNode(w5, cmp) EXCEPT !.compressorNode = cmp]
        w7 == SetValue(SetValue(SetValue(SetValue(SetValue(w6,
                 cmp, "threshold", -1), cmp, "knee", 20), cmp, "ratio", 20),
                 cmp, "attack", 5), cmp, "release", 100)
        w8 == [CreateNode(w7, pan) EXCEPT !.pannerNode = pan]
        w9 == [CreateNode(w8, rev) EXCEPT !.reverbNode = rev,
                 !.buffer = (rev :> createReverbImpulse(w8, 2500)) @@ @,
                 !.impulses = @ + 1]
        w10 == SetValue([CreateNode(w9, wet) EXCEPT !.reverbGainNode = wet],
                        wet, "gain", 0)
        w11 == SetValue([CreateNode(w10, dry) EXCEPT !.dryGainNode = dry],
                        dry, "gain", 100)
        \* EQ_FREQUENCIES.map: one peaking filter per frequency, in order
        w12 == [w11 EXCEPT
                 !.eqFilters = [i \in Bands |-> EqNode(c, i)],
                 !.nodes = @ \cup {EqNode(c, i) : i \in Bands},
                 !.attr = [k \in {<<EqNode(c, i), "type">> : i \in Bands}
                             |-> 1] @@ @,
                 !.param =
                   [k \in {<<EqNode(c, i), p>> :
                             i \in Bands, p \in {"frequency", "Q", "gain"}} |->
                      CASE k[2] = "frequency" ->
                             Param(EQ_FREQUENCIES[k[1].idx + 1])
                        [] k[2] = "Q" -> Param(14)
                        [] OTHER -> Param(0)] @@ @]
        w13 == [CreateNode(w12, voc) EXCEPT !.vocalFilter = voc,
                 !.attr = (<<voc, "type">> :> 1) @@ @]
    IN  Returned(SetValue(SetValue(SetValue(w13, voc, "frequency", 1500),
                 voc, "Q", 5), voc, "gain", 0))

\* init, lines 73-101: the connect calls.  Source -> PreAmp -> EQ Chain ->
\* Vocal -> Panner -> Split(Dry/Reverb) -> Analyser -> MasterGain ->
\* Compressor -> Dest.
GraphLinks(w) ==
    LET eq == w.eqFilters
    IN  {<<w.sourceNode, w.preAmpNode>>}
        \cup {<<IF i = 0 THEN w.preAmpNode ELSE eq[i - 1], eq[i]>> :
                i \in DOMAIN eq}
        \cup {<<eq[NumBands - 1], w.vocalFilter>>,
              <<w.vocalFilter, w.pannerNode>>,
              <<w.pannerNode, w.dryGainNode>>,
              <<w.pannerNode, w.reverbNode>>,
              <<w.reverbNode, w.reverbGainNode>>,
              <<w.dryGainNode, w.analyserNode>>,
              <<w.reverbGainNode, w.analyserNode>>,
              <<w.analyserNode, w.gainNode>>,
              <<w.gainNode, w.compressorNode>>,
              <<w.compressorNode, Node(w.context, "destination", 0)>>}

\* A graph whose wet path is never merged back into the analyser.
connectGraph_wetUnmerged(w) ==
    [w EXCEPT !.edges =
        @ \cup (GraphLinks(w) \ {<<w.reverbGainNode, w.analyserNode>>})]

connectGraph(w) == [w EXCEPT !.edges = @ \cup GraphLinks(w)]

\* The body of init past its guard.
initChain(w, audioElement, startState, rate) ==
    LET created == createNodes(w, audioElement, startState, rate)
    IN  IF created.outcome = "returned" THEN connectGraph(created) ELSE created

\* init without its guard.
init_noGuard(w, audioElement, startState, rate) ==
    initChain(w, audioElement, startState, rate)

init(w, audioElement, startState, rate) ==
    IF w.context # NoContext THEN Returned(w)
    ELSE initChain(w, audioElement, startState, rate)

Max(a, b) == IF a >= b THEN a ELSE b

Min(a, b) == IF a <= b THEN a ELSE b

\* resumeContext without the test of the context's state.
resumeContext_always(w) ==
    IF w.context # NoContext
    THEN Returned([w EXCEPT !.contexts[w.context].resuming = TRUE])
    ELSE Returned(w)

resumeContext(w) ==
    IF w.context # NoContext /\ w.contexts[w.context].state = "suspended"
    THEN Returned([w EXCEPT !.contexts[w.context].resuming = TRUE])
    ELSE Returned(w)

\* Math.pow(10, db / 20), in percent, for the pre-amp settings offered.
DbToLinear(db) ==
    CASE db = -12 -> 25
      [] db = -6 -> 50
      [] db = 0 -> 100
      [] db = 6 -> 200
      [] db = 12 -> 398

\* this.context!.currentTime with no context is a TypeError.
WithContext(w, done) ==
    IF w.context = NoContext THEN Threw(w, "TypeError") ELSE Returned(done)

setPreAmpGain(w, db) ==
    IF w.preAmpNode # NULL /\ w.context # NoContext
    THEN Returned(SetTargetAtTime(w, w.preAmpNode, "gain", DbToLinear(db), 100))
    ELSE Returned(w)

\* setVolume that assigns gain.value.
setVolume_jump(w, value) ==
    IF w.gainNode # NULL
    THEN WithContext(w, SetValue(w, w.gainNode, "gain", value))
    ELSE Returned(w)

\* setVolume without its null check.
setVolume_noGuard(w, value) ==
    IF w.gainNode = NULL THEN Threw(w, "TypeError")
    ELSE WithContext(w, SetTargetAtTime(w, w.gainNode, "gain", value, 10))

setVolume(w, value) ==
    IF w.gainNode # NULL
    THEN WithContext(w, SetTargetAtTime(w, w.gainNode, "gain", value, 10))
    ELSE Returned(w)

\* setLimiter that moves the threshold and leaves the ratio alone.
setLimiter_thresholdOnly(w, enabled) ==
    IF w.compressorNode # NULL
    THEN Returned(SetValue(w,
            w.compressorNode, "threshold", IF enabled THEN -1 ELSE 0))
    ELSE Returned(w)

setLimiter(w, enabled) ==
    IF w.compressorNode # NULL
    THEN Returned(SetValue(SetValue(w,
            w.compressorNode, "threshold", IF enabled THEN -1 ELSE 0),
            w.compressorNode, "ratio", IF enabled THEN 20 ELSE 1))
    ELSE Returned(w)

\* setEQGain that applies an index past either end to the nearest band.
setEQGain_nearestBand(w, index, gainDb) ==
    IF w.eqFilters # <<>>
    THEN WithContext(w, SetTargetAtTime(w,
            w.eqFilters[Max(0, Min(NumBands - 1, index))], "gain", gainDb, 100))
    ELSE Returned(w)

\* setEQGain that counts the bands from 1.
setEQGain_oneBased(w, index, gainDb) ==
    IF index \in DOMAIN w.eqFilters
    THEN WithContext(w,
            SetTargetAtTime(w, w.eqFilters[Max(0, index - 1)], "gain", gainDb, 100))
    ELSE Returned(w)

setEQGain(w, index, gainDb) ==
    IF index \in DOMAIN w.eqFilters
    THEN WithContext(w,
            SetTargetAtTime(w, w.eqFilters[index], "gain", gainDb, 100))
    ELSE Returned(w)

setVocalPresence(w, gainDb) ==
    IF w.vocalFilter # NULL
    THEN WithContext(w, SetTargetAtTime(w, w.vocalFilter, "gain", gainDb, 100))
    ELSE Returned(w)

setStereoWidth(w, pan) ==
    IF w.pannerNode # NULL
    THEN WithContext(w, SetTargetAtTime(w, w.pannerNode, "pan",
                                         Max(-10, Min(10, pan)), 100))
    ELSE Returned(w)

\* setReverbLevel that lets a ramp under way finish before taking a new target.
setReverbLevel_queued(w, level) ==
    IF w.reverbGainNode # NULL
    THEN IF w.param[<<w.reverbGainNode, "gain">>].value
              # w.param[<<w.reverbGainNode, "gain">>].target
         THEN Returned(w)
         ELSE WithContext(w,
                 SetTargetAtTime(w, w.reverbGainNode, "gain", level, 100))
    ELSE Returned(w)

\* setReverbLevel that lowers the dry level as it raises the wet one.
setReverbLevel_crossfade(w, level) ==
    IF w.reverbGainNode # NULL
    THEN WithContext(w,
            SetTargetAtTime(
                SetTargetAtTime(w, w.reverbGainNode, "gain", level, 100),
                w.dryGainNode, "gain", 100 - level, 100))
    ELSE Returned(w)

setReverbLevel(w, level) ==
    IF w.reverbGainNode # NULL
    THEN WithContext(w, SetTargetAtTime(w, w.reverbGainNode, "gain", level, 100))
    ELSE Returned(w)

\* setPlaybackRate that also scales the pre-amp with the rate.
setPlaybackRate_scaled(w, rate) ==
    IF w.audioElement # NoElement
    THEN Returned(SetValue([w EXCEPT !.playbackRate[w.audioElement] = rate],
                           w.preAmpNode, "gain", rate))
    ELSE Returned(w)

setPlaybackRate(w, rate) ==
    IF w.audioElement # NoElement
    THEN Returned([w EXCEPT !.playbackRate[w.audioElement] = rate])
    ELSE Returned(w)

getAudioAnalysis(w) ==
    IF w.analyserNode = NULL THEN [Returned(w) EXCEPT !.result = "null"]
    ELSE [Returned(w) EXCEPT !.result = "frame"]

\* analyser.frequencyBinCount: half the FFT size.
FrequencyBinCount(w) == w.attr[<<w.analyserNode, "fftSize">>] \div 2

\* Math.floor(bufferLength * 0.05) and Math.floor(bufferLength * 0.4).
BassCutoff(bufferLength) == (bufferLength * 5) \div 100

MidCutoff(bufferLength) == (bufferLength * 4) \div 10

\* The loop body with the band boundaries taken inclusively.
Accumulate_inclusive(e, i, v, bassCutoff, midCutoff) ==
    IF i <= bassCutoff THEN [e EXCEPT !.bassEnergy = @ + v]
    ELSE IF i <= midCutoff THEN [e EXCEPT !.midEnergy = @ + v]
    ELSE [e EXCEPT !.highEnergy = @ + v]

\* The body of the loop over the bins: bin i adds its value v to one band.
Accumulate(e, i, v, bassCutoff, midCutoff) ==
    IF i < bassCutoff THEN [e EXCEPT !.bassEnergy = @ + v]
    ELSE IF i < midCutoff THEN [e EXCEPT !.midEnergy = @ + v]
    ELSE [e EXCEPT !.highEnergy = @ + v]

NoEnergy == [bassEnergy |-> 0, midEnergy |-> 0, highEnergy |-> 0]

\* for (let i = lo; i < hi; i++): what the iterations lo .. hi - 1 add to the
\* three energies.  The sums are integers below 2^53, so the iterations of
\* the two halves of the range can be added up in any grouping.
RECURSIVE EnergyLoop(_, _, _, _, _)
EnergyLoop(dataArray, lo, hi, bassCutoff, midCutoff) ==
    IF hi <= lo THEN NoEnergy
    ELSE IF hi = lo + 1
    THEN Accumulate(NoEnergy, lo, dataArray[lo], bassCutoff, midCutoff)
    ELSE LET half == (lo + hi) \div 2
             first == EnergyLoop(dataArray, lo, half, bassCutoff, midCutoff)
             rest == EnergyLoop(dataArray, half, hi, bassCutoff, midCutoff)
         IN  [bassEnergy |-> first.bassEnergy + rest.bassEnergy,
              midEnergy |-> first.midEnergy + rest.midEnergy,
              highEnergy |-> first.highEnergy + rest.highEnergy]

\* A quotient num / den kept exact; den = 0 is the NaN or Infinity of the
\* division.
Quotient(num, den) == [num |-> num, den |-> den]

NoAnalysis ==
    [status |-> "none", bass |-> Quotient(0, 1), mid |-> Quotient(0, 1),
     treble |-> Quotient(0, 1)]

\* What getAudioAnalysis returns when the analyser holds dataArray.
AudioAnalysis(w, dataArray) ==
    IF w.analyserNode = NULL THEN [NoAnalysis EXCEPT !.status = "null"]
    ELSE LET bufferLength == FrequencyBinCount(w)
             bassCutoff == BassCutoff(bufferLength)
             midCutoff == MidCutoff(bufferLength)
             e == EnergyLoop(dataArray, 0, bufferLength, bassCutoff, midCutoff)
         IN  [status |-> "frame",
              bass |-> Quotient(e.bassEnergy, bassCutoff),
              mid |-> Quotient(e.midEnergy, midCutoff - bassCutoff),
              treble |-> Quotient(e.highEnergy, bufferLength - midCutoff)]

\* No frame captured and nothing returned.
NoFrame == [dataArray |-> <<>>, analysis |-> NoAnalysis]

\* ------------------------------------------------------- audio rendering

\* Integer quotient rounded toward zero.
TruncDiv(a, b) == IF a >= 0 THEN a \div b ELSE -((-a) \div b)

\* Render steps are 100 ms apart.  Percentage of the distance to the target
\* that is left after one step, exp(-100 / timeConstant): 37% for the 0.1 s
\* constant, nothing measurable for the 0.01 s constant.
Decay(tc) == IF tc = 100 THEN 37 ELSE 0

\* One render step of a parameter under setTargetAtTime automation:
\* v(t) = target + (v0 - target) * exp(-(t - t0) / timeConstant).
RampStep(p) ==
    IF p.value = p.target THEN p
    ELSE [p EXCEPT !.value =
            p.target + TruncDiv((p.value - p.target) * Decay(p.timeConstant), 100)]

Running(w, n) == w.contexts[n.ctx].state = "running"

\* The audio thread advances every parameter of a running context.
RenderQuantum(w) ==
    [w EXCEPT !.param =
        [k \in DOMAIN w.param |->
            IF Running(w, k[1]) THEN RampStep(w.param[k]) ELSE w.param[k]]]

\* ------------------------------------------------------------------ App

\* constants.ts, gains in dB.
PRESETS ==
    [flat |-> <<0, 0, 0, 0, 0, 0, 0, 0, 0, 0>>,
     bassBoost |-> <<8, 6, 4, 2, 0, 0, 0, 0, 0, 0>>,
     vocalBoost |-> <<-2, -2, -1, 1, 4, 5, 4, 2, 0, 0>>,
     rock |-> <<4, 3, 1, 0, -1, -1, 1, 3, 4, 5>>,
     electronic |-> <<6, 5, 2, 0, -2, 0, 1, 3, 5, 6>>]

\* A gain array in the model's unit (half dB).
HalfDb(gains) == [i \in 1 .. Len(gains) |-> 2 * gains[i]]

\* The eqGains state: the array and its identity.  React re-runs the effect
\* when the identity changes; a preset's array keeps the preset's identity,
\* every other array is a fresh one.
GainsState(ref, gains) == [ref |-> ref, gains |-> gains]

\* The App component before it is mounted: eqGains is PRESETS.flat.gains and
\* the voice session has no callback registered.
AppInit ==
    [mounted |-> FALSE, eqGains |-> GainsState("flat", HalfDb(PRESETS.flat)),
     eqDirty |-> FALSE, onEQUpdate |-> FALSE, isPlaying |-> FALSE,
     events |-> 0]

\* eqGains.forEach((gain, index) => audioGraph.setEQGain(index, gain)),
\* from position i (0-based) on; an exception ends the loop.
RECURSIVE EqGainsEffect(_, _, _)
EqGainsEffect(w, gains, i) ==
    IF i >= Len(gains) \/ w.outcome # "returned" THEN w
    ELSE EqGainsEffect(setEQGain(w, i, gains[i + 1]), gains, i + 1)

\* The effects of the first render, in the order the component declares
\* them: initialization, then one effect per piece of audio state.
MountEffects(w, audioElement, startState, rate, a) ==
    LET w1 == init(w, audioElement, startState, rate)
        w2 == EqGainsEffect(w1, a.eqGains.gains, 0)
        w3 == setVocalPresence(w2, 0)
        w4 == setReverbLevel(w3, 0)
        w5 == setStereoWidth(w4, 0)
        w6 == setPlaybackRate(w5, 100)
        w7 == setPreAmpGain(w6, 0)
    IN  setLimiter(w7, TRUE)

\* setEqGains(next): the state changes, and the effect is due, unless next
\* is the very array the state already holds.
setEqGains(a, next) ==
    IF next.ref # "fresh" /\ next.ref = a.eqGains.ref THEN a
    ELSE [a EXCEPT !.eqGains = next, !.eqDirty = TRUE]

\* Equalizer onChange: newGains = [...eqGains]; newGains[idx] = val.
onChange(a, idx, val) ==
    LET old == a.eqGains.gains
        newGains == [i \in 1 .. Max(Len(old), idx + 1) |->
                        IF i = idx + 1 THEN val
                        ELSE IF i <= Len(old) THEN old[i] ELSE 0]
    IN  setEqGains(a, GainsState("fresh", newGains))

\* ----------------------------------------------------------- Visualizer

\* const bassBins = 12
bassBins == 12

\* new Array(30).fill(0)
HistoryLength == 30

\* The refractory period of the detector, in ms.
Refractory == 250

\* The absolute floor of the detector: an average of 100.
EnergyFloor == 100 * bassBins

\* life: 1.0 and life -= 0.015, in two-hundredths.
ParticleLife == 200

ParticleDecay == 3

\* alpha: 1 and alpha -= 0.03, in percent.
WaveAlpha == 100

WaveDecay == 3

\* spawnParticles(10, cx, cy, 5, normalizedBass)
CentreParticles == 10

ColorModes == {"neon", "sunset", "ocean"}

\* The component before its first render: the refs as useRef creates them.
\* pending holds the callbacks requestAnimationFrame has been given and
\* has neither run nor cancelled, each with the props its closure captured.
\* isBeat, processed and onsets record what the frames did; beatCalls is
\* the number of calls of onBeat in the last run of renderFrame and
\* beatValue the value of the last call, times 255 * bassBins.
Visualizer ==
    [mount |-> "none", isPlaying |-> FALSE, colorMode |-> "neon",
     animationRef |-> 0, pending |-> {},
     particles |-> <<>>, shockwaves |-> <<>>,
     energyHistory |-> [i \in 1 .. HistoryLength |-> 0], lastBeatTime |-> 0,
     now |-> 0, isBeat |-> FALSE, processed |-> FALSE, onsets |-> <<>>,
     frames |-> 0, feed |-> "none", spikeAt |-> 0,
     beatCalls |-> 0, beatValue |-> 0]

\* for (let i = 1; i < bassBins; i++): the bins the detector reads.
SubBassBins == 1 .. bassBins - 1

\* avgBass = bassEnergy / bassBins, of the sum bassEnergy of the bins read.
avgBass(bassEnergy) == [num |-> bassEnergy, den |-> bassBins]

RECURSIVE SumSeq(_, _)
SumSeq(q, i) == IF i > Len(q) THEN 0 ELSE q[i] + SumSeq(q, i + 1)

\* The history that takes a sample and drops none.
PushShift_grow(history, bassEnergy) == Append(history, bassEnergy)

\* energyHistory.push(avgBass); energyHistory.shift()
PushShift(history, bassEnergy) == Tail(Append(history, bassEnergy))

\* The detector with a refractory period of 300 ms.
IsBeat_longRefractory(bassEnergy, history, now, lastBeatTime) ==
    /\ bassEnergy * Len(history) * 10 > SumSeq(history, 1) * 13
    /\ bassEnergy > EnergyFloor
    /\ now - lastBeatTime > 300

\* The detector without the refractory period.
IsBeat_noRefractory(bassEnergy, history, now, lastBeatTime) ==
    /\ bassEnergy * Len(history) * 10 > SumSeq(history, 1) * 13
    /\ bassEnergy > EnergyFloor

\* The detector with the floor reached rather than exceeded.
IsBeat_atFloor(bassEnergy, history, now, lastBeatTime) ==
    /\ bassEnergy * Len(history) * 10 > SumSeq(history, 1) * 13
    /\ bassEnergy >= EnergyFloor
    /\ now - lastBeatTime > Refractory

\* The detector comparing with the sum of the history, not its average.
IsBeat_sum(bassEnergy, history, now, lastBeatTime) ==
    /\ bassEnergy * 10 > SumSeq(history, 1) * 13
    /\ bassEnergy > EnergyFloor
    /\ now - lastBeatTime > Refractory

\* (avgBass > localAvgEnergy * 1.3) && (avgBass > 100) &&
\* (now - lastBeatTime > 250), where localAvgEnergy is the sum of the
\* history (the frame's own sample included) over its length.
IsBeat(bassEnergy, history, now, lastBeatTime) ==
    /\ bassEnergy * Len(history) * 10 > SumSeq(history, 1) * 13
    /\ bassEnergy > EnergyFloor
    /\ now - lastBeatTime > Refractory

\* <canvas width={1000} height={400}>
CanvasWidth == 1000

CanvasHeight == 400

\* radius: 10 of a new shockwave, in thousandths of a pixel.
WaveRadius == 10000

\* maxRadius: Math.max(width, height) * 0.6, in thousandths of a pixel.
maxRadius == (Max(CanvasWidth, CanvasHeight) * 6 * 1000) \div 10

\* A growth of a tenth of the radius a frame.
RadiusStep_fast(radius) == radius + 5000 + (radius * 10 + 99) \div 100

\* wave.radius += 5 + (wave.radius * 0.05), rounded up to the thousandth.
RadiusStep(radius) == radius + 5000 + (radius * 5 + 99) \div 100

\* The radius of a shockwave the loop has visited visits times.
RECURSIVE RadiusAfter(_)
RadiusAfter(visits) ==
    IF visits = 0 THEN WaveRadius ELSE RadiusStep(RadiusAfter(visits - 1))

\* The radius of a shockwave of opacity alpha: the loop lowers the opacity
\* and raises the radius in the same visit.
RadiusOf(alpha) == RadiusAfter((WaveAlpha - alpha) \div WaveDecay)

\* list.splice(idx, 1), idx counted from 1.
Splice(list, idx) ==
    [i \in 1 .. (Len(list) - 1) |-> IF i < idx THEN list[i] ELSE list[i + 1]]

\* The same loop leaving a spent entity in the list.
RECURSIVE ForEachDecay_keepSpent(_, _, _)
ForEachDecay_keepSpent(list, idx, decay) ==
    IF idx > Len(list) THEN list
    ELSE CHOOSE result \in
            {ForEachDecay_keepSpent(next, idx + 1, decay) :
                next \in {IF list[idx] - decay <= 0 THEN list
                          ELSE [list EXCEPT ![idx] = @ - decay]}} : TRUE

\* list.forEach((x, idx) => { x.v -= decay; if (x.v <= 0) list.splice(idx, 1) })
\* from index idx on: forEach moves to the next index after a removal, so
\* the element that took the removed one's place is not visited.  The list
\* after the visit of idx is bound as the element of a singleton set, which
\* has it evaluated once.
RECURSIVE ForEachDecay(_, _, _)
ForEachDecay(list, idx, decay) ==
    IF idx > Len(list) THEN list
    ELSE CHOOSE result \in
            {ForEachDecay(next, idx + 1, decay) :
                next \in {IF list[idx] - decay <= 0 THEN Splice(list, idx)
                          ELSE [list EXCEPT ![idx] = @ - decay]}} : TRUE

\* spawnParticles(count, ...): count particles pushed with life 1.0.
spawnParticles(particles, count) ==
    particles \o [i \in 1 .. count |-> ParticleLife]

\* A handle requestAnimationFrame has not handed out before; handles that
\* are no longer pending nor held by animationRef are not told apart.
FreshHandle(v) ==
    CHOOSE h \in 1 .. (Cardinality(v.pending) + 2) :
        /\ h # v.animationRef
        /\ \A p \in v.pending : p.handle # h

\* animationRef.current = requestAnimationFrame(renderFrame), renderFrame
\* being the closure over the props c.
Schedule(v, c) ==
    LET h == FreshHandle(v)
    IN  [v EXCEPT !.animationRef = h,
                  !.pending = @ \cup {[handle |-> h, isPlaying |-> c.isPlaying,
                                       colorMode |-> c.colorMode]}]

\* cancelAnimationFrame(handle)
Cancel(v, handle) ==
    [v EXCEPT !.pending = {p \in @ : p.handle # handle}]

\* The end of a drawn frame asking for a next one only while playing.
Reschedule_whilePlaying(v, c) == IF c.isPlaying THEN Schedule(v, c) ELSE v

\* The end of a drawn frame: the frame asks for the next one.
Reschedule(v, c) == Schedule(v, c)

\* renderFrame of the closure over the props c, when the sub-bass bins sum
\* to bassEnergy and tips frequency bars throw a particle pair.
renderFrame(v, w, c, bassEnergy, tips) ==
    IF \/ w.analyserNode = NULL
       \/ (~c.isPlaying /\ v.particles = <<>> /\ v.shockwaves = <<>>)
    THEN LET cleared == [v EXCEPT !.isBeat = FALSE, !.processed = FALSE,
                                  !.beatCalls = 0]
         IN  IF c.isPlaying THEN Schedule(cleared, c) ELSE cleared
    ELSE LET history == PushShift(v.energyHistory, bassEnergy)
             isBeat == IsBeat(bassEnergy, history, v.now, v.lastBeatTime)
             waves == IF isBeat THEN Append(v.shockwaves, WaveAlpha)
                      ELSE v.shockwaves
             centre == IF isBeat THEN spawnParticles(v.particles, CentreParticles)
                       ELSE v.particles
             tipped == IF isBeat THEN spawnParticles(centre, 2 * tips)
                       ELSE centre
             drawn ==
                [v EXCEPT !.energyHistory = history,
                          !.lastBeatTime = IF isBeat THEN v.now ELSE @,
                          !.onsets = IF isBeat THEN Append(@, v.now) ELSE @,
                          !.isBeat = isBeat,
                          !.processed = TRUE,
                          \* onBeatRef.current(normalizedBass)
                          !.beatCalls = 1,
                          !.beatValue = bassEnergy,
                          !.shockwaves = ForEachDecay(waves, 1, WaveDecay),
                          !.particles = ForEachDecay(tipped, 1, ParticleDecay)]
         IN  Reschedule(drawn, c)

\* The body of the render effect: a new renderFrame closure over the
\* current props, called once.
RenderEffect(v, w, bassEnergy, tips) ==
    renderFrame(v, w, [isPlaying |-> v.isPlaying, colorMode |-> v.colorMode],
                bassEnergy, tips)

\* The cleanup without the cancellation.
Cleanup_noCancel(v) == v

\* The cleanup of the render effect.
Cleanup(v) ==
    IF v.animationRef # 0 THEN Cancel(v, v.animationRef) ELSE v

\* ---------------------------------------------------------- LiveService

\* The singleton as constructed.  Fields that hold an object hold its
\* identity, 0 for null.  tracks, processors and contexts are the platform
\* objects the connect calls have created; pc is the point each connect call
\* has reached and opened whether its socket has opened; rejected tells
\* that a close() was refused because the context was closed already; torn
\* tells that disconnect() has been called and connect() not since.
LiveService ==
    [session |-> 0, inputStream |-> 0, inputProcessor |-> 0,
     inputContext |-> 0, outputContext |-> 0,
     onStatusChange |-> FALSE, status |-> "",
     tracks |-> <<>>, processors |-> <<>>, contexts |-> <<>>,
     pc |-> <<>>, opened |-> <<>>, rejected |-> FALSE, outcome |-> "returned",
     torn |-> FALSE]

notifyStatus(l, status) ==
    IF l.onStatusChange THEN [l EXCEPT !.status = status] ELSE l

\* context.close(): the promise is rejected when the context is closed.
Close(l, c) ==
    IF l.contexts[c] = "closed" THEN [l EXCEPT !.rejected = TRUE]
    ELSE [l EXCEPT !.contexts[c] = "closed"]

\* connect(), from the call to its first await: call k creates the
\* contexts 2k - 1 and 2k and asks the input context to resume.
connect(l, withStatus) ==
    LET k == Len(l.pc) + 1
        l1 == notifyStatus([l EXCEPT !.onStatusChange = @ \/ withStatus],
                           "Initializing Audio...")
    IN  [l1 EXCEPT !.inputContext = 2 * k - 1,
                   !.outputContext = 2 * k,
                   !.contexts = @ \o <<"running", "suspended">>,
                   !.pc = Append(@, "resumeInput"),
                   !.opened = Append(@, FALSE),
                   !.torn = FALSE]

\* connect call k goes on after await this.inputContext.resume(): it reads
\* this.outputContext to resume it.
connectResumeOutput(l, k) ==
    IF l.outputContext = 0
    THEN [l EXCEPT !.pc[k] = "failed", !.outcome = "TypeError"]
    ELSE [l EXCEPT !.pc[k] = "resumeOutput",
                   !.contexts[l.outputContext] =
                        IF @ = "suspended" THEN "running" ELSE @]

\* connect call k goes on after await this.outputContext.resume().
connectGetUserMedia(l, k) ==
    [notifyStatus(l, "Connecting to Gemini...") EXCEPT !.pc[k] = "getUserMedia"]

\* getUserMedia settles for connect call k: the stream k is stored and the
\* socket asked for, or the call fails.
connectMic(l, k, granted) ==
    IF granted
    THEN [l EXCEPT !.inputStream = k,
                   !.tracks = (k :> "live") @@ @,
                   !.pc[k] = "session"]
    ELSE [notifyStatus(l, "Mic Access Denied") EXCEPT !.pc[k] = "failed"]

\* startAudioInput: the stream held now feeds a new processor.
startAudioInput(l, k) ==
    IF l.inputStream = 0 \/ l.inputContext = 0 THEN l
    ELSE [l EXCEPT !.inputProcessor = k,
                   !.processors = (k :> [connected |-> TRUE,
                                         stream |-> l.inputStream,
                                         context |-> l.inputContext]) @@ @]

\* onopen of the socket of connect call k.
onopen(l, k) ==
    [startAudioInput(notifyStatus(l, "Listening"), k) EXCEPT !.opened[k] = TRUE]

\* this.session = await sessionPromise, for connect call k.
connectSession(l, k) == [l EXCEPT !.session = k, !.pc[k] = "done"]

\* A disconnect that closes the contexts and keeps them in their fields.
disconnect_keepContexts(l) ==
    LET l1 == [l EXCEPT !.session = 0]
        l2 == IF l1.inputStream # 0
              THEN [l1 EXCEPT !.tracks[l1.inputStream] = "ended",
                              !.inputStream = 0]
              ELSE l1
        l3 == IF l2.inputProcessor # 0
              THEN [l2 EXCEPT !.processors[l2.inputProcessor].connected = FALSE,
                              !.inputProcessor = 0]
              ELSE l2
        l4 == IF l3.inputContext # 0 THEN Close(l3, l3.inputContext) ELSE l3
        l5 == IF l4.outputContext # 0 THEN Close(l4, l4.outputContext) ELSE l4
    IN  [notifyStatus(l5, "Disconnected") EXCEPT !.outcome = "returned",
                                                 !.torn = TRUE]

disconnect(l) ==
    LET l1 == [l EXCEPT !.session = 0]
        l2 == IF l1.inputStream # 0
              THEN [l1 EXCEPT !.tracks[l1.inputStream] = "ended",
                              !.inputStream = 0]
              ELSE l1
        l3 == IF l2.inputProcessor # 0
              THEN [l2 EXCEPT !.processors[l2.inputProcessor].connected = FALSE,
                              !.inputProcessor = 0]
              ELSE l2
        l4 == IF l3.inputContext # 0
              THEN [Close(l3, l3.inputContext) EXCEPT !.inputContext = 0]
              ELSE l3
        l5 == IF l4.outputContext # 0
              THEN [Close(l4, l4.outputContext) EXCEPT !.outputContext = 0]
              ELSE l4
    IN  [notifyStatus(l5, "Disconnected") EXCEPT !.outcome = "returned",
                                                 !.torn = TRUE]

\* ------------------------------------------------- specification: the class

Init ==
    /\ ag = AudioGraph
    /\ calls = 0
    /\ lastCall = [op |-> "new", s |-> "", a |-> 0, b |-> 0]
    /\ app = AppInit
    /\ frame = NoFrame
    /\ vis = Visualizer
    /\ live = LiveService

\* The record of a call: the method, and its string and integer arguments.
CallOf(op, s, a, b) == [op |-> op, s |-> s, a |-> a, b |-> b]

\* One call of a method from outside the class.
Call(op, s, a, b, after) ==
    /\ calls < MaxCalls
    /\ ag' = after
    /\ calls' = calls + 1
    /\ lastCall' = CallOf(op, s, a, b)
    /\ UNCHANGED <<app, otherVars>>

CallInit ==
    \E e \in Elements, s \in StartStates, r \in SampleRates :
        Call("init", e, 0, 0, init(ag, e, s, r))

CallResumeContext == Call("resumeContext", "", 0, 0, resumeContext(ag))

CallSetPreAmpGain ==
    \E db \in PreAmpInputs : Call("setPreAmpGain", "", db, 0, setPreAmpGain(ag, db))

CallSetVolume ==
    \E v \in VolumeInputs : Call("setVolume", "", v, 0, setVolume(ag, v))

CallSetLimiter ==
    \E on \in BOOLEAN :
        Call("setLimiter", "", IF on THEN 1 ELSE 0, 0, setLimiter(ag, on))

CallSetEQGain ==
    \E i \in BandIndices, g \in GainInputs :
        Call("setEQGain", "", i, g, setEQGain(ag, i, g))

CallSetVocalPresence ==
    \E g \in GainInputs : Call("setVocalPresence", "", g, 0, setVocalPresence(ag, g))

CallSetStereoWidth ==
    \E p \in PanInputs : Call("setStereoWidth", "", p, 0, setStereoWidth(ag, p))

CallSetReverbLevel ==
    \E l \in ReverbInputs : Call("setReverbLevel", "", l, 0, setReverbLevel(ag, l))

CallSetPlaybackRate ==
    \E r \in RateInputs : Call("setPlaybackRate", "", r, 0, setPlaybackRate(ag, r))

CallGetAudioAnalysis == Call("getAudioAnalysis", "", 0, 0, getAudioAnalysis(ag))

\* The audio thread renders while some parameter is still on its way.
Render ==
    /\ RenderQuantum(ag) # ag
    /\ ag' = RenderQuantum(ag)
    /\ UNCHANGED <<calls, lastCall, app, otherVars>>

\* The promise of context.resume() resolves.
ResumeComplete ==
    /\ ag.context # NoContext
    /\ ag.contexts[ag.context].resuming
    /\ ag' = [ag EXCEPT !.contexts[ag.context].state = "running",
                        !.contexts[ag.context].resuming = FALSE]
    /\ UNCHANGED <<calls, lastCall, app, otherVars>>

Next ==
    \/ CallInit
    \/ CallResumeContext
    \/ CallSetPreAmpGain
    \/ CallSetVolume
    \/ CallSetLimiter
    \/ CallSetEQGain
    \/ CallSetVocalPresence
    \/ CallSetStereoWidth
    \/ CallSetReverbLevel
    \/ CallSetPlaybackRate
    \/ CallGetAudioAnalysis
    \/ Render
    \/ ResumeComplete

Spec == Init /\ [][Next]_vars

\* The audio thread keeps rendering and a requested resume completes.
FairSpec == Spec /\ WF_vars(Render) /\ WF_vars(ResumeComplete)

\* -------------------------------------- specification: the construction

\* A source node of another context, made by an earlier instance of the
\* module.
ForeignSource == Node(0, "source", 0)

\* The class on a page where one of the audio elements may already feed a
\* MediaElementAudioSourceNode.
BuildInit ==
    /\ \E attached \in SUBSET {"audioB"} :
         ag = [AudioGraph EXCEPT
                 !.mediaSource = [e \in attached |-> ForeignSource]]
    /\ calls = 0
    /\ lastCall = [op |-> "new", s |-> "", a |-> 0, b |-> 0]
    /\ app = AppInit
    /\ frame = NoFrame
    /\ vis = Visualizer
    /\ live = LiveService

BuildSpec == BuildInit /\ [][Next]_vars

\* ------------------------------------------ specification: the analysis

\* Bins of the analyser built by init.
AnalyserBins == 0 .. 2047

\* Levels of the bins around the one that stands out.
FloorLevels == {16}

\* Frames of byte frequency data: one bin at full scale over a level floor.
Frames ==
    {[k \in AnalyserBins |-> IF k = i THEN 255 ELSE l] :
        i \in AnalyserBins, l \in FloorLevels}

\* The graph is built, or not, and the analyser holds some frame.
AnalysisInit ==
    /\ \/ /\ ag = initChain(AudioGraph, "audioA", "running", 48000)
          /\ frame \in {[NoFrame EXCEPT !.dataArray = d] : d \in Frames}
       \/ /\ ag = AudioGraph
          /\ frame = NoFrame
    /\ calls = 0
    /\ lastCall = [op |-> "new", s |-> "", a |-> 0, b |-> 0]
    /\ app = AppInit
    /\ vis = Visualizer
    /\ live = LiveService

\* getAudioAnalysis() on the frame the analyser holds.
AnalyseFrame ==
    /\ frame.analysis.status = "none"
    /\ ag' = getAudioAnalysis(ag)
    /\ frame' = [frame EXCEPT !.analysis = AudioAnalysis(ag, frame.dataArray)]
    /\ lastCall' = CallOf("getAudioAnalysis", "", 0, 0)
    /\ UNCHANGED <<calls, app, vis, live>>

AnalysisNext == AnalyseFrame

AnalysisSpec == AnalysisInit /\ [][AnalysisNext]_vars

\* ------------------------------------------ specification: the detector

\* Frames fed to the detector in one behaviour of DetectorSpec.
MaxFrames == 3

\* Sub-bass sums fed to the detector: averages of 50, 100, 101 and 200.
EnergyInputs == {600, 1200, 1212, 2400}

\* Time between two frames, in ms.
FrameIntervals == {10, 100, 251}

\* Levels of a history left by a sustained passage: averages of 0, 50, 180.
HistoryLevels == {0, 600, 2160}

\* Frequency bars that throw a particle pair in a frame with an onset.
TipInputs == {0, 1}

\* The built graph the frames read their analyser from.
BuiltGraph == initChain(AudioGraph, "audioA", "running", 48000)

\* The mounted component while playing, its render loop under way.
Looping(v) ==
    Schedule([v EXCEPT !.mount = "mounted", !.isPlaying = TRUE],
             [isPlaying |-> TRUE, colorMode |-> v.colorMode])

\* The callback p runs, dt after the previous frame.
FrameOf(v, w, p, bassEnergy, dt, tips) ==
    renderFrame([v EXCEPT !.pending = @ \ {p}, !.now = @ + dt,
                          !.frames = @ + 1],
                w, [isPlaying |-> p.isPlaying, colorMode |-> p.colorMode],
                bassEnergy, tips)

\* The browser runs a pending frame callback.
Frame(bassEnergy, dt, tips) ==
    /\ \E p \in vis.pending : vis' = FrameOf(vis, ag, p, bassEnergy, dt, tips)
    /\ lastCall' = CallOf("renderFrame", "", bassEnergy, dt)
    /\ UNCHANGED <<ag, calls, app, frame, live>>

\* One second after the time origin, a history left by a sustained level,
\* the last onset 100 ms ago or none yet.
DetectorInit ==
    /\ ag = BuiltGraph
    /\ \E level \in HistoryLevels, last \in {0, 900} :
         vis = Looping([Visualizer EXCEPT
                          !.now = 1000, !.lastBeatTime = last,
                          !.onsets = IF last = 0 THEN <<>> ELSE <<last>>,
                          !.beatCalls = 1, !.beatValue = level,
                          !.energyHistory = [i \in 1 .. HistoryLength |-> level]])
    /\ calls = 0
    /\ lastCall = [op |-> "new", s |-> "", a |-> 0, b |-> 0]
    /\ app = AppInit
    /\ frame = NoFrame
    /\ live = LiveService

DetectorFrame ==
    /\ vis.frames < MaxFrames
    /\ \E e \in EnergyInputs, dt \in FrameIntervals : Frame(e, dt, 0)

DetectorNext == DetectorFrame

DetectorSpec == DetectorInit /\ [][DetectorNext]_vars

\* ------------------------------------------- specification: spike feeds

\* Frames of a spike feed.
RunLength == 75

\* Flat frames before the first spike.
LeadIn == 40

\* Averages of 50 and 200, as sums.
Background == 50 * bassBins

Spike == 200 * bassBins

\* Time between two frames of a spike feed, in ms.
FeedIntervals == {10, 100}

\* The feeds: one spike; two spikes 100 ms apart; two spikes 300 ms apart.
Feeds == {"one", "near", "far"}

FeedGap(feed) == CASE feed = "near" -> 100 [] feed = "far" -> 300 [] OTHER -> 0

\* Whether the frame at time t, the frames so far being counted in v, is
\* a spike of the feed.
IsSpike(v, t) ==
    \/ v.frames = LeadIn
    \/ /\ v.frames > LeadIn
       /\ v.feed # "one"
       /\ t = v.spikeAt + FeedGap(v.feed)

\* The playing component at the time origin, before its first frame.
SpikeInit ==
    /\ ag = BuiltGraph
    /\ \E f \in Feeds : vis = Looping([Visualizer EXCEPT !.feed = f])
    /\ calls = 0
    /\ lastCall = [op |-> "new", s |-> "", a |-> 0, b |-> 0]
    /\ app = AppInit
    /\ frame = NoFrame
    /\ live = LiveService

\* A frame of the feed; a frame falls on the time of the second spike.
SpikeFrame ==
    /\ vis.frames < RunLength
    /\ \E dt \in FeedIntervals :
         LET t == vis.now + dt
             second == vis.spikeAt + FeedGap(vis.feed)
         IN  /\ (vis.frames > LeadIn /\ vis.now < second) => t <= second
             /\ \E p \in vis.pending :
                  vis' = [FrameOf(vis, ag, p,
                                  IF IsSpike(vis, t) THEN Spike ELSE Background,
                                  dt, 0)
                            EXCEPT !.spikeAt = IF vis.frames = LeadIn THEN t ELSE @]
             /\ lastCall' = CallOf("renderFrame", "",
                                   IF IsSpike(vis, t) THEN Spike ELSE Background, dt)
    /\ UNCHANGED <<ag, calls, app, frame, live>>

SpikeNext == SpikeFrame

SpikeSpec == SpikeInit /\ [][SpikeNext]_vars

\* ------------------------------------------- specification: render loop

\* Time between two frames of the render loop, in ms.
LoopIntervals == {100}

\* What the sub-bass bins can hold in a frame of the render loop: silence,
\* or a spike once the previous one has left the history and what it threw
\* has been removed.
LoopFeed(v) ==
    {0} \cup
        (IF /\ \A i \in 1 .. HistoryLength : v.energyHistory[i] < Spike
            /\ v.particles = <<>>
            /\ v.shockwaves = <<>>
         THEN {Spike} ELSE {})

\* The detector only uses now - lastBeatTime: the render loop's clock is
\* kept relative to the last onset and stops counting past the refractory
\* period, and the record of the frames is dropped.
Rebase(v) ==
    [v EXCEPT !.now = Min(v.now - v.lastBeatTime, Refractory + 1),
              !.lastBeatTime = 0, !.onsets = <<>>, !.frames = 0]

\* An action of the component or of the browser on it.
LoopStep(op, after) ==
    /\ vis' = Rebase(after)
    /\ lastCall' = CallOf(op, "", 0, 0)
    /\ UNCHANGED <<ag, calls, app, frame, live>>

\* First render with some props; under React.StrictMode the effect is run,
\* cleaned up and run again.
VisMount ==
    /\ vis.mount = "none"
    /\ \E playing \in BOOLEAN, mode \in ColorModes, strict \in BOOLEAN,
          e \in LoopFeed(vis), tips \in TipInputs :
         LET v0 == [vis EXCEPT !.mount = "mounted", !.isPlaying = playing,
                               !.colorMode = mode]
             once == RenderEffect(v0, ag, e, tips)
         IN  LoopStep("mount",
                      IF strict
                      THEN RenderEffect(Cleanup(once), ag, 0, 0)
                      ELSE once)

\* The isPlaying prop changes: cleanup of the effect, then the effect.
SetIsPlaying ==
    /\ vis.mount = "mounted"
    /\ \E e \in LoopFeed(vis), tips \in TipInputs :
         LoopStep("setIsPlaying",
                  RenderEffect(Cleanup([vis EXCEPT !.isPlaying = ~@]),
                               ag, e, tips))

\* The colorMode prop changes: cleanup of the effect, then the effect.
SetColorMode ==
    /\ vis.mount = "mounted"
    /\ \E mode \in ColorModes \ {vis.colorMode},
          e \in LoopFeed(vis), tips \in TipInputs :
         LoopStep("setColorMode",
                  RenderEffect(Cleanup([vis EXCEPT !.colorMode = mode]),
                               ag, e, tips))

\* The component is unmounted: cleanup of the effect.
VisUnmount ==
    /\ vis.mount = "mounted"
    /\ LoopStep("unmount", [Cleanup(vis) EXCEPT !.mount = "unmounted"])

\* The browser runs a pending frame callback.
LoopFrame ==
    \E p \in vis.pending, e \in LoopFeed(vis), dt \in LoopIntervals,
       tips \in TipInputs :
        LoopStep("renderFrame", FrameOf(vis, ag, p, e, dt, tips))

\* The App's mount effect builds the graph, before or after the
\* Visualizer's first render.
GraphInit ==
    /\ ag.context = NoContext
    /\ ag' = init(ag, "audioA", "running", 48000)
    /\ lastCall' = CallOf("init", "audioA", 0, 0)
    /\ UNCHANGED <<calls, app, frame, vis, live>>

LoopNext ==
    \/ VisMount
    \/ SetIsPlaying
    \/ SetColorMode
    \/ VisUnmount
    \/ LoopFrame
    \/ GraphInit

\* A step of LoopFrame: no other action of LoopNext leaves this record.
FrameRuns == lastCall'.op = "renderFrame"

\* The browser keeps running the frame callbacks it has been given: weak
\* fairness of LoopFrame, which is enabled exactly when a callback is
\* pending and always changes animationRef or pending.
LoopSpec ==
    /\ Init /\ [][LoopNext]_vars
    /\ ([]<>(vis.pending = {}) \/ []<><<FrameRuns>>_vars)

\* ---------------------------------------------- specification: teardown

\* connect calls in one behaviour of TeardownSpec.
MaxConnects == 2

\* An action on the LiveService singleton.
LiveStep(op, k, after) ==
    /\ live' = after
    /\ lastCall' = CallOf(op, "", k, 0)
    /\ UNCHANGED <<ag, calls, app, frame, vis>>

\* liveService.connect(...) is called, with or without a status callback.
LiveConnect ==
    /\ Len(live.pc) < MaxConnects
    /\ \E withStatus \in BOOLEAN :
         LiveStep("connect", Len(live.pc) + 1, connect(live, withStatus))

\* The connect call k goes on after its first await.
LiveResumeOutput ==
    \E k \in DOMAIN live.pc :
        /\ live.pc[k] = "resumeInput"
        /\ LiveStep("connectResumeOutput", k, connectResumeOutput(live, k))

\* The connect call k goes on after its second await.
LiveGetUserMedia ==
    \E k \in DOMAIN live.pc :
        /\ live.pc[k] = "resumeOutput"
        /\ LiveStep("connectGetUserMedia", k, connectGetUserMedia(live, k))

\* The microphone is granted or denied to the connect call k.
LiveMic ==
    \E k \in DOMAIN live.pc, granted \in BOOLEAN :
        /\ live.pc[k] = "getUserMedia"
        /\ LiveStep("connectMic", k, connectMic(live, k, granted))

\* The socket of the connect call k opens.
LiveOpen ==
    \E k \in DOMAIN live.pc :
        /\ live.pc[k] = "session"
        /\ ~live.opened[k]
        /\ LiveStep("onopen", k, onopen(live, k))

\* The session promise of the connect call k resolves, its socket open.
LiveSession ==
    \E k \in DOMAIN live.pc :
        /\ live.pc[k] = "session"
        /\ live.opened[k]
        /\ LiveStep("connectSession", k, connectSession(live, k))

\* The fields of the singleton that hold an object.
Held(l) ==
    Cardinality({f \in {"session", "inputStream", "inputProcessor",
                         "inputContext", "outputContext"} : l[f] # 0})

\* liveService.disconnect() is called; the call is recorded with the
\* number of objects the singleton held.
LiveDisconnect == LiveStep("disconnect", Held(live), disconnect(live))

\* A frame of the Visualizer while the graph has no analyser.
IdleFrame ==
    \E p \in vis.pending, dt \in LoopIntervals :
        LoopStep("renderFrame", FrameOf(vis, ag, p, 0, dt, 0))

\* The service and the component share no state: a behaviour exercises
\* the component while the service is as constructed, or the service while
\* the component is not mounted.
ServiceIdle == live = LiveService

ComponentIdle == vis.mount = "none"

TeardownNext ==
    \/ ComponentIdle /\ LiveConnect
    \/ LiveResumeOutput
    \/ LiveGetUserMedia
    \/ LiveMic
    \/ LiveOpen
    \/ LiveSession
    \/ LiveDisconnect
    \/ ServiceIdle /\ VisMount
    \/ ServiceIdle /\ SetIsPlaying
    \/ ServiceIdle /\ VisUnmount
    \/ ServiceIdle /\ IdleFrame

TeardownSpec == Init /\ [][TeardownNext]_vars

\* --------------------------------------------- specification: the component

\* Values the band sliders deliver (min -12, max 12, step 0.5), in half dB.
SliderInputs == {-24, 5}

\* Gain arrays (dB) an AI preset result or a voice tool call may carry: the
\* service is asked for ten gains between -12 and 12 but nothing checks what
\* it sends.
AIResults ==
    {<<-12, -6, 0, 3, 6, 12, 6, 3, 0, -3>>,
     <<13, 0, 0, 0, 0, 0, 0, 0, 0, 0>>,
     <<6, 6, 6, 6, 6, 6, 6, 6, 6, 6, 6>>}

\* The element the component renders.
AppElement == "audioA"

\* An event handler of the mounted component; the effects of the previous
\* render have run before the next event is handled.
Event(op, s, a, b, after) ==
    /\ app.mounted
    /\ ~app.eqDirty
    /\ app.events < MaxEvents
    /\ app' = [after EXCEPT !.events = @ + 1]
    /\ lastCall' = CallOf(op, s, a, b)
    /\ UNCHANGED <<ag, calls, otherVars>>

\* First render; under React.StrictMode the effects run a second time.
Mount ==
    /\ ~app.mounted
    /\ \E s \in StartStates, r \in SampleRates, strict \in BOOLEAN :
         LET once == MountEffects(ag, AppElement, s, r, app)
         IN  ag' = IF strict THEN MountEffects(once, AppElement, s, r, app)
                   ELSE once
    /\ app' = [app EXCEPT !.mounted = TRUE]
    /\ lastCall' = CallOf("mount", "", 0, 0)
    /\ UNCHANGED <<calls, otherVars>>

SliderChange ==
    \E idx \in Bands, val \in SliderInputs :
        Event("onChange", "", idx, val, onChange(app, idx, val))

SelectPreset ==
    \E name \in DOMAIN PRESETS :
        Event("preset", name, 0, 0,
              setEqGains(app, GainsState(name, HalfDb(PRESETS[name]))))

\* handleAIGenerate, once generateEQPreset has resolved with a result.
AIGenerateResult ==
    \E gains \in AIResults :
        Event("handleAIGenerate", "", gains[1], 0,
              setEqGains(app, GainsState("fresh", HalfDb(gains))))

\* toggleVoiceControl: liveService.connect registers the EQ callback.
ConnectVoice ==
    /\ app.mounted
    /\ ~app.onEQUpdate
    /\ app' = [app EXCEPT !.onEQUpdate = TRUE]
    /\ lastCall' = CallOf("connect", "", 0, 0)
    /\ UNCHANGED <<ag, calls, otherVars>>

\* LiveService.handleMessage on an updateEQ tool call.
VoiceUpdateEQ ==
    /\ app.onEQUpdate
    /\ \E gains \in AIResults :
        Event("updateEQ", "", gains[1], 0,
              setEqGains(app, GainsState("fresh", HalfDb(gains))))

\* handlePlayPause: resume the context, then play or pause the element.
HandlePlayPause ==
    /\ app.mounted
    /\ ~app.eqDirty
    /\ ag' = resumeContext(ag)
    /\ app' = [app EXCEPT !.isPlaying = ~@]
    /\ lastCall' = CallOf("handlePlayPause", "", 0, 0)
    /\ UNCHANGED <<calls, otherVars>>

\* The eqGains effect after a render that changed eqGains.
RunEqGainsEffect ==
    /\ app.eqDirty
    /\ ag' = EqGainsEffect(ag, app.eqGains.gains, 0)
    /\ app' = [app EXCEPT !.eqDirty = FALSE]
    /\ UNCHANGED <<calls, lastCall, otherVars>>

AppNext ==
    \/ Mount
    \/ SliderChange
    \/ SelectPreset
    \/ AIGenerateResult
    \/ ConnectVoice
    \/ VoiceUpdateEQ
    \/ HandlePlayPause
    \/ RunEqGainsEffect
    \/ Render
    \/ ResumeComplete

AppSpec == Init /\ [][AppNext]_vars

\* ------------------------------------------------------------------ claims

\* A step that is a call of method op on the singleton.
IsCall(op) == calls' = calls + 1 /\ lastCall'.op = op

Initialized == ag.context # NoContext

NodesOfKind(w, kind) == {n \in w.nodes : n.kind = kind}

\* The kinds of node of which a chain has exactly one.
SingleKinds ==
    {"source", "preAmp", "vocal", "panner", "reverb", "reverbGain", "dryGain",
     "analyser", "gain", "compressor", "destination"}

\* Exactly one context and one set of nodes, held by the fields, bound to
\* the element the graph recorded.
OneChain(w) ==
    /\ DOMAIN w.contexts = {w.context}
    /\ \A kind \in SingleKinds :
         NodesOfKind(w, kind) = {Node(w.context, kind, 0)}
    /\ NodesOfKind(w, "eq") = {Node(w.context, "eq", i) : i \in Bands}
    /\ \A n \in w.nodes : n.kind \in SingleKinds \cup {"eq"}
    /\ Cardinality(w.nodes) = 21
    /\ w.mediaSource = (w.audioElement :> w.sourceNode)
    /\ w.sourceNode = Node(w.context, "source", 0)
    /\ w.impulses = 1

\* C1: init is idempotent.  After every init call exactly one audio context
\* and one set of nodes exist (one pre-amp, ten band filters, one presence
\* filter, one panner, one convolver, dry and wet gains, one analyser, one
\* output gain, one compressor), and an init on a graph that already has its
\* context changes nothing: no node, no connection, the same element.
C1_InitIdempotent ==
    [][IsCall("init") =>
          /\ OneChain(ag')
          /\ Initialized => ag' = ag]_vars

\* An init with a different element has been issued after the first one.
C1_Witness ==
    /\ lastCall.op = "init"
    /\ calls >= 2
    /\ ag.audioElement # lastCall.s
    /\ OneChain(ag)

\* The series part of the chain, in order, for the graph of context c.
ChainPath(c) ==
    <<Node(c, "source", 0), Node(c, "preAmp", 0)>>
    \o [i \in 1 .. NumBands |-> Node(c, "eq", i - 1)]
    \o <<Node(c, "vocal", 0), Node(c, "panner", 0)>>

ExpectedEdges(c) ==
    {<<ChainPath(c)[i], ChainPath(c)[i + 1]>> : i \in 1 .. (Len(ChainPath(c)) - 1)}
    \cup {<<Node(c, "panner", 0), Node(c, "dryGain", 0)>>,
          <<Node(c, "panner", 0), Node(c, "reverb", 0)>>,
          <<Node(c, "reverb", 0), Node(c, "reverbGain", 0)>>,
          <<Node(c, "dryGain", 0), Node(c, "analyser", 0)>>,
          <<Node(c, "reverbGain", 0), Node(c, "analyser", 0)>>,
          <<Node(c, "analyser", 0), Node(c, "gain", 0)>>,
          <<Node(c, "gain", 0), Node(c, "compressor", 0)>>,
          <<Node(c, "compressor", 0), Node(c, "destination", 0)>>}

BandFrequency(w, i) == w.param[<<Node(w.context, "eq", i), "frequency">>].value

\* C2: once init has run, the connection graph is exactly source -> pre-amp
\* -> band 0 -> ... -> band 9 (ascending centre frequency) -> presence ->
\* panner -> {dry gain, convolver -> wet gain} -> analyser -> output gain ->
\* compressor -> sink, in every later state: no setter, analysis read, render
\* step or resume adds, removes or reorders a node or a connection.
C2_Topology ==
    Initialized =>
        /\ ag.edges = ExpectedEdges(ag.context)
        /\ ag.nodes = {e[1] : e \in ag.edges} \cup {e[2] : e \in ag.edges}
        /\ \A i \in Bands : BandFrequency(ag, i) = EQ_FREQUENCIES[i + 1]
        /\ \A i, j \in Bands : i < j => BandFrequency(ag, i) < BandFrequency(ag, j)

\* Setters have run on the built graph and the audio thread is mid-ramp.
C2_Witness ==
    /\ Initialized
    /\ calls = MaxCalls
    /\ lastCall.op = "setReverbLevel"
    /\ \E k \in DOMAIN ag.param : ag.param[k].value # ag.param[k].target
    /\ ag.edges = ExpectedEdges(ag.context)

\* The state of the graph apart from what the last call reported.
Silent(w) == [w EXCEPT !.outcome = "returned", !.result = "none"]

Setters ==
    {"setPreAmpGain", "setVolume", "setLimiter", "setEQGain",
     "setVocalPresence", "setStereoWidth", "setReverbLevel", "setPlaybackRate"}

\* C3: before init, every setter and resumeContext returns without throwing
\* and leaves the whole AudioGraph state as it was, and getAudioAnalysis
\* returns null without throwing.
C3_NoOpBeforeInit ==
    [][(~Initialized /\ calls' = calls + 1 /\ lastCall'.op # "init") =>
          /\ ag'.outcome = "returned"
          /\ Silent(ag') = Silent(ag)
          /\ lastCall'.op \in Setters \cup {"resumeContext", "getAudioAnalysis"}
          /\ lastCall'.op = "getAudioAnalysis" => ag'.result = "null"]_vars

\* Calls have been made and the graph is still as constructed.
C3_Witness ==
    /\ ~Initialized
    /\ calls = MaxCalls
    /\ lastCall.op = "setVolume"
    /\ ag.outcome = "returned"
    /\ ag.result = "null"

\* A setEQGain call on the built graph with an index that is no band.
BadIndexCall ==
    /\ Initialized
    /\ IsCall("setEQGain")
    /\ lastCall'.a \notin Bands

\* C4 as stated: on an initialized chain, setEQGain with a band index outside
\* [0, 9] fails with an error.
C4_FailsFast == [][BadIndexCall => ag'.outcome # "returned"]_vars

\* C4, amended: on an initialized chain, setEQGain with a band index outside
\* [0, 9] is silently ignored: it returns normally and changes nothing.
C4_SilentlyIgnored ==
    [][BadIndexCall => ag'.outcome = "returned" /\ ag' = ag]_vars

\* setEQGain(10, g) has returned on the built graph.
C4_Witness ==
    /\ Initialized
    /\ lastCall.op = "setEQGain"
    /\ lastCall.a = 10
    /\ ag.outcome = "returned"

\* The setters that go through setTargetAtTime.
SmoothedSetters ==
    {"setPreAmpGain", "setVolume", "setEQGain", "setVocalPresence",
     "setStereoWidth", "setReverbLevel"}

\* The parameter a call is about, its requested target and the time constant
\* the call names, read off the call alone.
KeyOf(c, call) ==
    CASE call.op = "setPreAmpGain" -> <<Node(c, "preAmp", 0), "gain">>
      [] call.op = "setVolume" -> <<Node(c, "gain", 0), "gain">>
      [] call.op = "setEQGain" -> <<Node(c, "eq", call.a), "gain">>
      [] call.op = "setVocalPresence" -> <<Node(c, "vocal", 0), "gain">>
      [] call.op = "setStereoWidth" -> <<Node(c, "panner", 0), "pan">>
      [] call.op = "setReverbLevel" -> <<Node(c, "reverbGain", 0), "gain">>

TargetOf(call) ==
    CASE call.op = "setPreAmpGain" -> DbToLinear(call.a)
      [] call.op = "setEQGain" -> call.b
      [] call.op = "setStereoWidth" ->
            IF call.a > 10 THEN 10 ELSE IF call.a < -10 THEN -10 ELSE call.a
      [] OTHER -> call.a

TimeConstantOf(call) == IF call.op = "setVolume" THEN 10 ELSE 100

\* A call of a smoothed setter that names an existing parameter.
SmoothedCall ==
    /\ Initialized
    /\ calls' = calls + 1
    /\ lastCall'.op \in SmoothedSetters
    /\ lastCall'.op = "setEQGain" => lastCall'.a \in Bands

\* C5 as stated: every setter of a graph parameter, setLimiter included,
\* changes a parameter only by scheduling a ramp: the value is not written.
C5_EverySetterRamps ==
    [][(Initialized /\ calls' = calls + 1
          /\ lastCall'.op \in SmoothedSetters \cup {"setLimiter"}) =>
          \A k \in DOMAIN ag.param :
              ag'.param[k] # ag.param[k] =>
                  /\ ag'.param[k].timeConstant > 0
                  /\ ag'.param[k].value = ag.param[k].value]_vars

CompressorParam(w, p) == w.param[<<Node(w.context, "compressor", 0), p>>]

\* C5, amended: the setters of pre-amp gain, band gains, presence gain, pan,
\* wet level and output volume schedule a ramp toward the new target (time
\* constant 0.01 s for the volume, 0.1 s for the others) and leave the value
\* where it is; setLimiter is the exception: it writes the compressor's
\* threshold and ratio as values, with no ramp.
C5_SmoothedExceptLimiter ==
    [][/\ SmoothedCall =>
            ag'.param[KeyOf(ag.context, lastCall')] =
                [value |-> ag.param[KeyOf(ag.context, lastCall')].value,
                 target |-> TargetOf(lastCall'),
                 timeConstant |-> TimeConstantOf(lastCall')]
       /\ (Initialized /\ IsCall("setLimiter")) =>
            \A p \in {"threshold", "ratio"} :
                /\ CompressorParam(ag', p).timeConstant = 0
                /\ CompressorParam(ag', p).value = CompressorParam(ag', p).target]_vars

\* The volume has been set and its ramp has not reached the target yet.
C5_Witness ==
    /\ Initialized
    /\ lastCall.op = "setVolume"
    /\ ag.param[<<Node(ag.context, "gain", 0), "gain">>] =
          [value |-> 100, target |-> lastCall.a, timeConstant |-> 10]

\* The parameters that are set through setTargetAtTime.
SmoothedKeys(c) ==
    {<<Node(c, "preAmp", 0), "gain">>, <<Node(c, "gain", 0), "gain">>,
     <<Node(c, "vocal", 0), "gain">>, <<Node(c, "panner", 0), "pan">>,
     <<Node(c, "reverbGain", 0), "gain">>}
    \cup {<<Node(c, "eq", i), "gain">> : i \in Bands}

Abs(x) == IF x >= 0 THEN x ELSE -x

ContextRunning == Initialized /\ ag.contexts[ag.context].state = "running"

\* From parameter state p the value v is strictly nearer the target, on the
\* same side of it.
Nearer(p, v) ==
    /\ Abs(v - p.target) < Abs(p.value - p.target)
    /\ (v - p.target) * (p.value - p.target) >= 0

\* C6: ramps retarget and do not queue.  The target of every smoothed
\* parameter is at all times the one of the latest set of that parameter (a
\* second set replaces the first one's target, a step that is no set of the
\* parameter never changes it); a set starts from the value the parameter
\* has, it does not move it; and every step of the audio thread on a running
\* context takes a value that differs from its target strictly nearer to that
\* target without passing it.  Hence after sets to v1 and then v2 the value
\* converges to v2.
C6_Retarget ==
    [][Initialized =>
         \A K \in SmoothedKeys(ag.context) :
            /\ ag'.param[K].target =
                 IF SmoothedCall /\ KeyOf(ag.context, lastCall') = K
                 THEN TargetOf(lastCall') ELSE ag.param[K].target
            /\ calls' # calls => ag'.param[K].value = ag.param[K].value
            /\ calls' = calls =>
                 IF ContextRunning /\ ag.param[K].value # ag.param[K].target
                 THEN Nearer(ag.param[K], ag'.param[K].value)
                 ELSE ag'.param[K].value = ag.param[K].value]_vars

WetGain == ag.param[<<Node(ag.context, "reverbGain", 0), "gain">>]

\* The wet level was on its way from 0 to 0.2 when it was set to 0.5.
C6_Witness ==
    /\ Initialized
    /\ lastCall.op = "setReverbLevel"
    /\ lastCall.a = 50
    /\ WetGain.target = 50
    /\ WetGain.value > 0
    /\ WetGain.value < 20

BandGain(i) == ag.param[<<Node(ag.context, "eq", i), "gain">>]

\* C7: for every band i in [0, 9] and gain g in [-12, 12] dB, once
\* setEQGain(i, g) has run on an initialized chain and no call has followed,
\* the target of band i's gain is g, and when the audio thread of the running
\* context has nothing left to do the value is g.
C7_BandGainReadBack ==
    (/\ Initialized
     /\ lastCall.op = "setEQGain"
     /\ lastCall.a \in Bands
     /\ lastCall.b \in -24 .. 24) =>
        /\ BandGain(lastCall.a).target = lastCall.b
        /\ (ContextRunning /\ ~ENABLED Render) =>
              BandGain(lastCall.a).value = lastCall.b

\* Band 9 has been set to -12 dB and has settled there.
C7_Witness ==
    /\ Initialized
    /\ lastCall.op = "setEQGain"
    /\ lastCall.a = 9
    /\ lastCall.b = -24
    /\ BandGain(9) = [value |-> -24, target |-> -24, timeConstant |-> 100]

\* C8 as stated: whatever the sliders, the presets, the AI preset results and
\* the voice tool calls do, every band gain that reaches the filter bank lies
\* in [-12, 12] dB and belongs to one of the ten bands.
C8_GainsInRange ==
    \A k \in DOMAIN ag.param :
        (k[1].kind = "eq" /\ k[2] = "gain") =>
            /\ k[1].idx \in Bands
            /\ ag.param[k].target \in -24 .. 24

\* The compressor as init configures it (lines 41-45).
LimiterAtInit ==
    [threshold |-> -1, knee |-> 20, ratio |-> 20, attack |-> 5, release |-> 100]

LimiterConfig == [p \in DOMAIN LimiterAtInit |-> CompressorParam(ag, p).value]

\* C9: once setLimiter(true) has run the compressor has threshold -0.5 dB and
\* ratio 20, once setLimiter(false) has run it has threshold 0 dB and ratio 1,
\* whatever the limiter was before; knee, attack and release keep the values
\* given at init in every state, so that enabling restores the whole
\* configuration of init.
C9_LimiterToggle ==
    Initialized =>
        /\ \A p \in {"knee", "attack", "release"} :
              CompressorParam(ag, p) = Param(LimiterAtInit[p])
        /\ (lastCall.op = "init" /\ calls = 1) => LimiterConfig = LimiterAtInit
        /\ (lastCall.op = "setLimiter" /\ lastCall.a = 1) =>
              /\ CompressorParam(ag, "threshold") = Param(-1)
              /\ CompressorParam(ag, "ratio") = Param(20)
              /\ LimiterConfig = LimiterAtInit
        /\ (lastCall.op = "setLimiter" /\ lastCall.a = 0) =>
              /\ CompressorParam(ag, "threshold") = Param(0)
              /\ CompressorParam(ag, "ratio") = Param(1)

\* The limiter has been switched off on the built graph.
C9_Witness ==
    /\ Initialized
    /\ calls = MaxCalls
    /\ lastCall.op = "setLimiter"
    /\ lastCall.a = 0
    /\ LimiterConfig = [LimiterAtInit EXCEPT !.threshold = 0, !.ratio = 1]

\* C10: setPlaybackRate changes the rate of the audio element and nothing
\* else (no node parameter, no node, no connection), and the rate of an
\* element changes in no step but a setPlaybackRate call.
C10_RateOutsideGraph ==
    [][/\ IsCall("setPlaybackRate") =>
            ag' = IF ag.audioElement = NoElement THEN ag
                  ELSE [ag EXCEPT !.playbackRate[ag.audioElement] = lastCall'.a]
       /\ ag'.playbackRate # ag.playbackRate => IsCall("setPlaybackRate")]_vars

\* The rate of the graph's element has been doubled.
C10_Witness ==
    /\ Initialized
    /\ lastCall.op = "setPlaybackRate"
    /\ ag.playbackRate[ag.audioElement] = 200
    /\ \A k \in DOMAIN ag.param : ag.param[k].value = ag.param[k].target

\* A resume has been requested on the graph's context and has not completed.
ResumeRequested == Initialized /\ ag.contexts[ag.context].resuming

ContextSuspended == Initialized /\ ag.contexts[ag.context].state = "suspended"

\* C11: resumeContext requests a resume only when the context exists and is
\* suspended; on a running context, or before init, it changes nothing; a
\* second call right after the first leaves the state the first call left;
\* and a requested resume leads to a running context.
C11_ResumeIdempotent ==
    /\ [][IsCall("resumeContext") =>
            /\ ag'.outcome = "returned"
            /\ Silent(ag') = IF ContextSuspended
                             THEN Silent([ag EXCEPT
                                     !.contexts[ag.context].resuming = TRUE])
                             ELSE Silent(ag)
            /\ resumeContext(ag') = ag']_vars
    /\ (ResumeRequested ~> ContextRunning)

\* resumeContext has just been called on a suspended context, after an
\* earlier call, and the resume is under way.
C11_Witness ==
    /\ lastCall.op = "resumeContext"
    /\ calls = MaxCalls
    /\ ContextSuspended
    /\ ResumeRequested

\* The sum of v times the number of bins of R that hold v, over the values
\* of the set vals.
RECURSIVE WeightedCount(_, _, _)
WeightedCount(dataArray, R, vals) ==
    IF vals = {} THEN 0
    ELSE LET v == CHOOSE x \in vals : TRUE
         IN  v * Cardinality({k \in R : dataArray[k] = v})
             + WeightedCount(dataArray, R, vals \ {v})

\* The sum of the bins lo .. hi - 1 of a frame.
BandSum(dataArray, lo, hi) ==
    LET R == lo .. (hi - 1)
    IN  WeightedCount(dataArray, R, {dataArray[k] : k \in R})

\* C12: with N bins, bass is the sum of the bins [0, floor(0.05 N)) over
\* their number, mid that of [floor(0.05 N), floor(0.4 N)) and treble that
\* of [floor(0.4 N), N); the three bands are disjoint and cover every bin.
C12_BandPartition ==
    frame.analysis.status = "frame" =>
        LET d == frame.dataArray
            N == Cardinality(DOMAIN d)
            b == N \div 20
            m == (2 * N) \div 5
            r == frame.analysis
        IN  /\ r.bass = [num |-> BandSum(d, 0, b), den |-> b]
            /\ r.mid = [num |-> BandSum(d, b, m), den |-> m - b]
            /\ r.treble = [num |-> BandSum(d, m, N), den |-> N - m]
            /\ r.bass.den + r.mid.den + r.treble.den = N
            /\ r.bass.num + r.mid.num + r.treble.num = BandSum(d, 0, N)

\* A frame whose full-scale bin is the first bin of the mid band has been
\* analysed.
C12_Witness ==
    /\ frame.analysis.status = "frame"
    /\ frame.dataArray[102] = 255
    /\ frame.dataArray[101] = 16
    /\ frame.analysis.mid.num = 255 + 16 * 716

\* A step in which a frame callback has run.
FrameStep == vis'.frames = vis.frames + 1

\* C13: in a processed frame the detector reports an onset exactly when the
\* frame's sub-bass energy is above 1.3 times the average of the 30-sample
\* history, above 100, and the frame comes more than 250 ms after the last
\* recorded onset; the last-onset time becomes the frame's time on an onset
\* and is kept otherwise.
C13_OnsetIff ==
    [][FrameStep =>
        LET energy == lastCall'.a
            t == vis.now + lastCall'.b
            window == SubSeq(vis.energyHistory, 2, HistoryLength) \o <<energy>>
            onset == /\ energy * 10 * HistoryLength > 13 * SumSeq(window, 1)
                     /\ energy > 100 * 12
                     /\ t - vis.lastBeatTime > 250
        IN  /\ vis'.processed
            /\ vis'.now = t
            /\ vis'.energyHistory = window
            /\ vis'.isBeat <=> onset
            /\ vis'.lastBeatTime = IF onset THEN t ELSE vis.lastBeatTime]_vars

\* A frame has just recorded an onset, after a frame that was loud enough
\* but came too early.
C13_Witness ==
    /\ vis.isBeat
    /\ vis.frames = 2
    /\ vis.lastBeatTime = vis.now
    /\ vis.now = 1261
    /\ vis.onsets = <<900, 1261>>
    /\ vis.energyHistory[HistoryLength - 1] = Spike

\* C15: any two recorded onsets are more than 250 ms apart, whatever the
\* energies and the frame times.
C15_RefractoryPeriod ==
    \A i, j \in DOMAIN vis.onsets :
        i < j => vis.onsets[j] - vis.onsets[i] > 250

\* A second spike 100 ms after a detected one has been rejected, and a
\* later one accepted.
C15_Witness ==
    /\ vis.frames = 3
    /\ Len(vis.onsets) = 2
    /\ vis.onsets[1] = 1010
    /\ vis.onsets[2] = 1010 + 100 + 251
    /\ vis.energyHistory[HistoryLength - 1] = Spike

\* C14: fed 40 flat frames at 50, one frame at 200 and flat frames at 50
\* again, the detector records no onset before the spike frame, one on the
\* spike frame and none after it.
C14_SingleSpike ==
    vis.feed = "one" =>
        vis.onsets = IF vis.frames <= LeadIn THEN <<>> ELSE <<vis.spikeAt>>

\* The whole single-spike feed has been processed and one onset recorded.
C14_Witness ==
    /\ vis.feed = "one"
    /\ vis.frames = RunLength
    /\ Len(vis.onsets) = 1
    /\ vis.energyHistory = [i \in 1 .. HistoryLength |-> Background]

\* C16: two single-frame spikes to 200 that are 300 ms apart over a flat 50
\* give two onsets, one on each spike frame, and no other.
C16_TwoSpikes ==
    vis.feed = "far" =>
        vis.onsets = IF vis.frames <= LeadIn THEN <<>>
                     ELSE IF vis.now < vis.spikeAt + 300 THEN <<vis.spikeAt>>
                     ELSE <<vis.spikeAt, vis.spikeAt + 300>>

\* The second spike has just been detected with the first one still in the
\* history.
C16_Witness ==
    /\ vis.feed = "far"
    /\ vis.isBeat
    /\ vis.onsets = <<vis.spikeAt, vis.now>>
    /\ vis.now = vis.spikeAt + 300
    /\ \E i \in 1 .. (HistoryLength - 1) : vis.energyHistory[i] = Spike

Live(v) == v.particles # <<>> \/ v.shockwaves # <<>>

\* A step in which renderFrame has run: as a frame callback, or called by
\* the render effect.
RenderFrameRan ==
    lastCall'.op \in {"renderFrame", "mount", "setIsPlaying", "setColorMode"}

\* C17: a frame that runs while playback is active, or while a particle or
\* a shockwave is live, asks for its next invocation: afterwards the
\* callback animationRef designates is pending, and it is a new one.
C17_LoopGoesOn ==
    [][(RenderFrameRan /\ (vis'.isPlaying \/ Live(vis))) =>
        \E p \in vis'.pending :
            /\ p.handle = vis'.animationRef
            /\ p \notin vis.pending
            /\ p.isPlaying = vis'.isPlaying]_vars

\* A frame callback has run with playback stopped, has drawn the particles
\* still live and has asked for the next frame.
C17_Witness ==
    /\ lastCall.op = "renderFrame"
    /\ ~vis.isPlaying
    /\ vis.processed
    /\ vis.particles # <<>>
    /\ vis.shockwaves = <<>>
    /\ vis.pending # {}

Stopped == vis.mount = "mounted" /\ ~vis.isPlaying

Idle == ~Live(vis) /\ vis.pending = {}

\* C18: if from some point on playback is stopped and no frame detects an
\* onset, then from some point on no particle or shockwave is left and no
\* frame is pending; and while stopped with nothing live and nothing
\* pending, a frame becomes pending only when isPlaying or colorMode changes.
C18_DrainsAndStops ==
    /\ (<>[](Stopped /\ ~vis.isBeat)) => <>[]Idle
    /\ [][(Stopped /\ Idle /\ vis'.pending # {}) =>
            (vis'.isPlaying # vis.isPlaying \/ vis'.colorMode # vis.colorMode)]_vars

\* With playback stopped, the frame that found nothing left to draw has run
\* and has not asked for another.
C18_Witness ==
    /\ lastCall.op = "renderFrame"
    /\ Stopped
    /\ ~vis.processed
    /\ Idle
    /\ vis.animationRef # 0

\* C19: at most one frame callback is pending; a cleanup (before the effect
\* runs again, or at unmount) leaves none of the callbacks that were
\* pending; and after unmount nothing is pending and the component's state
\* no longer changes.
C19_SingleLoop ==
    /\ [](Cardinality(vis.pending) <= 1)
    /\ [](vis.mount = "unmounted" => vis.pending = {})
    /\ [][lastCall'.op \in {"setIsPlaying", "setColorMode", "unmount"} =>
            vis.pending \cap vis'.pending = {}]_vars
    /\ [][vis.mount = "unmounted" => vis' = vis]_vars

\* A prop has changed while a frame was pending: that frame is cancelled
\* and the new effect's frame is the one pending.
C19_Witness ==
    /\ lastCall.op = "setColorMode"
    /\ vis.isPlaying
    /\ vis.animationRef = 2
    /\ Cardinality(vis.pending) = 1
    /\ vis.particles # <<>>

\* C20: a disconnect() returns without throwing and without a refused
\* close(), and leaves a state that a second disconnect() right after it
\* does not change; the Visualizer's cleanup leaves a state that a second
\* cleanup does not change, and changes nothing when no frame is pending.
C20_TeardownIdempotent ==
    /\ [][lastCall'.op = "disconnect" =>
            /\ live' = disconnect(live)
            /\ live'.outcome = "returned"
            /\ ~live'.rejected
            /\ live'.session = 0 /\ live'.inputStream = 0
            /\ live'.inputProcessor = 0
            /\ live'.inputContext = 0 /\ live'.outputContext = 0
            /\ disconnect(live') = live']_vars
    /\ [](Cleanup(Cleanup(vis)) = Cleanup(vis))
    /\ [](vis.pending = {} => Cleanup(vis) = vis)

\* disconnect() has been called with nothing left to release, after a
\* disconnect() that stopped the microphone and closed both contexts.
C20_Witness ==
    /\ lastCall.op = "disconnect"
    /\ lastCall.a = 0
    /\ live.pc = <<"done">>
    /\ live.tracks[1] = "ended"
    /\ ~live.processors[1].connected
    /\ live.contexts = <<"closed", "closed">>
    /\ live.status = "Disconnected"

\* Every connect call has run to its end or has failed.
Settled == \A k \in DOMAIN live.pc : live.pc[k] \in {"done", "failed"}

\* C21 as stated: once disconnect() has been called, connect() has not been
\* called since and every connect call has run to its end, the service holds
\* no microphone stream and no input processor.
C21_ReleasedAfterDisconnect ==
    (live.torn /\ Settled) => (live.inputStream = 0 /\ live.inputProcessor = 0)

\* The chain is built: init has run to its end.
Built == ag.reverbNode # NULL

\* C22: the impulse response is generated once, inside the init that builds
\* the chain: a built chain has made one impulse, the convolver's buffer has
\* two channels of sampleRate * 2.5 samples (120000 at 48000 Hz), a step
\* that makes an impulse is an init call on a graph without context, and
\* once made neither the count nor the convolver's buffer changes.
C22_ImpulseOnce ==
    /\ [](ag.impulses <= 1)
    /\ [](Built =>
            /\ ag.impulses = 1
            /\ DOMAIN ag.buffer = {ag.reverbNode}
            /\ LET rate == ag.contexts[ag.context].sampleRate
                   impulse == ag.buffer[ag.reverbNode]
               IN  /\ impulse.numberOfChannels = 2
                   /\ impulse.length * 2 = rate * 5
                   /\ impulse.sampleRate = rate
                   /\ rate = 48000 => impulse.length = 120000)
    /\ [][ag'.impulses # ag.impulses =>
            IsCall("init") /\ ag.context = NoContext /\ ag.impulses = 0]_vars
    /\ [][ag.impulses = 1 => ag'.buffer = ag.buffer]_vars

\* A second init has returned on the built chain, after a setter.
C22_Witness ==
    /\ Built
    /\ calls = 3
    /\ lastCall.op = "init"
    /\ ag.impulses = 1
    /\ ag.buffer[ag.reverbNode].length = 120000
    /\ ag.param[<<ag.reverbGainNode, "gain">>].target # 0

\* C23 as stated: every run of renderFrame calls onBeat once, and the
\* value passed is the smoothed level: the value passed before moved 0.2 of
\* the way to the frame's instantaneous energy.
C23_SmoothedEveryFrame ==
    [][FrameStep =>
        /\ vis'.beatCalls = 1
        /\ 5 * vis'.beatValue
             = 4 * vis.beatValue + vis'.energyHistory[HistoryLength]]_vars

\* C24 as stated: the energy a processed frame gives the detector is the
\* mean of the bins it reads, their sum divided by their number.
C24_MeanOfBinsRead ==
    [][(FrameStep /\ vis'.processed) =>
        LET sum == lastCall'.a
            avg == avgBass(sum)
        IN  /\ vis'.energyHistory[HistoryLength] * avg.den = avg.num * bassBins
            /\ avg.num * Cardinality(SubBassBins) = sum * avg.den]_vars

\* C25: the energy history always holds 30 samples; a processed frame
\* drops the oldest sample, keeps the others in order and puts the frame's
\* own energy last; and a frame reports an onset only if its energy is above
\* 1.3 times the average of the history that already holds that energy.
C25_HistoryFifo ==
    /\ [](Len(vis.energyHistory) = HistoryLength)
    /\ [][(FrameStep /\ vis'.processed) =>
            /\ \A i \in 1 .. HistoryLength - 1 :
                 vis'.energyHistory[i] = vis.energyHistory[i + 1]
            /\ vis'.energyHistory[HistoryLength] = lastCall'.a
            /\ vis'.isBeat =>
                 lastCall'.a * HistoryLength * 10
                    > SumSeq(vis'.energyHistory, 1) * 13]_vars

\* Forty-five frames have run: the zeros the history started with are gone
\* and the spike of the forty-first frame is its twenty-sixth sample.
C25_Witness ==
    /\ vis.frames = 45
    /\ vis.energyHistory[26] = Spike
    /\ \A i \in (1 .. HistoryLength) \ {26} : vis.energyHistory[i] = Background

\* Every entity of the list advanced once, the spent ones removed.
AdvanceAll(list, decay) ==
    SelectSeq([i \in 1 .. Len(list) |-> list[i] - decay], LAMBDA x : x > 0)

\* The list after is the list before with every entity advanced once and
\* the spent ones removed, followed by entities made in the frame.
AdvancedOnce(before, after, decay, fresh) ==
    LET kept == AdvanceAll(before, decay)
    IN  /\ Len(kept) <= Len(after)
        /\ SubSeq(after, 1, Len(kept)) = kept
        /\ \A i \in (Len(kept) + 1) .. Len(after) : after[i] >= fresh - decay

\* A frame callback has run and has drawn.
DrawnFrame == lastCall'.op = "renderFrame" /\ vis'.processed

\* C26 as stated: a processed frame advances once every shockwave and every
\* particle that was live when it started: the lists after the frame hold
\* those entities advanced once, less the spent ones, then the new ones.
C26_EachAdvancedOnce ==
    [][DrawnFrame =>
        /\ AdvancedOnce(vis.shockwaves, vis'.shockwaves, WaveDecay, WaveAlpha)
        /\ AdvancedOnce(vis.particles, vis'.particles, ParticleDecay,
                        ParticleLife)]_vars

\* C27: no spent entity is left in the lists: every shockwave has a
\* positive opacity and every particle a positive life, and a drawn frame
\* that starts with entities due to expire together ends with fewer.
C27_NoExpiredLeft ==
    /\ [](/\ \A i \in DOMAIN vis.shockwaves : vis.shockwaves[i] > 0
          /\ \A i \in DOMAIN vis.particles : vis.particles[i] > 0)
    /\ [][(DrawnFrame /\ vis.particles # <<>>
             /\ \A i \in DOMAIN vis.particles : vis.particles[i] <= ParticleDecay)
            => Len(vis'.particles) < Len(vis.particles)]_vars

\* A drawn frame has removed some of the particles of one onset; those the
\* loop did not visit are left with the life they had.
C27_Witness ==
    /\ lastCall.op = "renderFrame"
    /\ vis.processed
    /\ Len(vis.particles) = 5
    /\ \A i \in DOMAIN vis.particles : vis.particles[i] = 2

\* The fields of the class that hold a node.
NodeFields ==
    {"sourceNode", "preAmpNode", "gainNode", "analyserNode", "vocalFilter",
     "pannerNode", "reverbNode", "reverbGainNode", "dryGainNode",
     "compressorNode"}

NothingSet(w) ==
    /\ w.context = NoContext
    /\ \A f \in NodeFields : w[f] = NULL
    /\ w.eqFilters = <<>>

AllSet(w) ==
    /\ w.context # NoContext
    /\ \A f \in NodeFields : w[f] # NULL
    /\ DOMAIN w.eqFilters = Bands
    /\ GraphLinks(w) \subseteq w.edges

\* C28 as stated: in every state the context and the nodes are all unset
\* or all set and connected, also after an init that threw; no setter
\* throws; and an init call that returns leaves the chain built.
C28_AllOrNothing ==
    /\ [](NothingSet(ag) \/ AllSet(ag))
    /\ [][(calls' = calls + 1 /\ lastCall'.op \in Setters)
            => ag'.outcome = "returned"]_vars
    /\ [][(IsCall("init") /\ ag'.outcome = "returned") => AllSet(ag')]_vars

\* The parameters a setter call may change: the one parameter of a
\* smoothed setter, the compressor's for setLimiter.
OwnKeys(c, call) ==
    IF call.op = "setLimiter"
    THEN {k \in DOMAIN ag.param : k[1] = Node(c, "compressor", 0)}
    ELSE IF call.op \in SmoothedSetters THEN {KeyOf(c, call)}
    ELSE {}

DryGain == ag.param[<<Node(ag.context, "dryGain", 0), "gain">>]

\* C29: a setter call on the built chain changes no parameter but its own
\* (for setEQGain the gain of its band, for setLimiter the compressor's
\* threshold and ratio) and no node, connection, attribute or buffer; and the
\* dry gain is 1.0, with nothing scheduled on it, in every state.
C29_OwnParameterOnly ==
    /\ [][(Built /\ calls' = calls + 1 /\ lastCall'.op \in Setters) =>
            /\ DOMAIN ag'.param = DOMAIN ag.param
            /\ \A k \in DOMAIN ag.param \ OwnKeys(ag.context, lastCall') :
                 ag'.param[k] = ag.param[k]
            /\ lastCall'.op = "setLimiter" =>
                 \A p \in {"knee", "attack", "release"} :
                    CompressorParam(ag', p) = CompressorParam(ag, p)
            /\ ag'.nodes = ag.nodes /\ ag'.edges = ag.edges
            /\ ag'.attr = ag.attr /\ ag'.buffer = ag.buffer]_vars
    /\ [](Built => DryGain = Param(100))

\* The wet level has been set to 0.5 after the gain of band 5; the dry
\* gain is at 1.0.
C29_Witness ==
    /\ Built
    /\ lastCall.op = "setReverbLevel"
    /\ WetGain.target = 50
    /\ BandGain(5).target # 0
    /\ DryGain = Param(100)

\* C30: on the 1000 x 400 canvas the radius of every shockwave in the list
\* is at most its maxRadius of 600 pixels.
C30_RadiusBounded ==
    \A i \in DOMAIN vis.shockwaves : RadiusOf(vis.shockwaves[i]) <= maxRadius

\* A shockwave has been drawn for the last time: its opacity is 0.01 after
\* 33 frames and its radius is past 450 pixels.
C30_Witness ==
    /\ lastCall.op = "renderFrame"
    /\ vis.shockwaves = <<1>>
    /\ RadiusOf(1) > 450000
    /\ RadiusOf(1) < maxRadius

====
